---- MODULE Spec2Model ----
(***************************************************************************)
(* EarlyAllocator<PAGE_SIZE> of arceos/modules/bump_allocator/src/lib.rs.  *)
(*                                                                         *)
(* The allocator owns four usize cursors (start, end, b_pos, p_pos).       *)
(* Every trait method is one action.  usize arithmetic is modelled at a    *)
(* reduced width (WordBits): `+`, `-` and `*` wrap modulo Word when the    *)
(* build has overflow checks off (release profile) and panic when it has   *)
(* them on (debug profile); the profile is fixed when the program starts.  *)
(*                                                                         *)
(* Ghost state (not in the source) records what the caller holds: the live *)
(* byte blocks, the live page blocks, whether the caller has freed in LIFO *)
(* order so far, the ranges handed over by init/add_memory, and the last   *)
(* call with its result.                                                   *)
(***************************************************************************)
EXTENDS Integers, Sequences, FiniteSets, TLC

\* ---- bounds of the model ----
WordBits == 5            \* width of usize in the model (64 in the build)
MaxBase == 4             \* init is called with base in 0..MaxBase
MaxPagesInit == 2        \* init sizes go up to MaxPagesInit pages
MaxAllocSize == 3        \* alloc is called with size in 0..MaxAllocSize
MaxCount == 2            \* alloc_pages is called with num_pages in 0..MaxCount
MaxLive == 2             \* the caller holds at most MaxLive blocks per side
MaxCalls == 3            \* calls after init that are not frees

\* const PAGE_SIZE: usize (generic parameter, lib.rs:97), instantiated at 4
PAGE_SIZE == 4

Word == 2 ^ WordBits

VARIABLES start, end, b_pos, p_pos,      \* the struct's fields
          pc,                            \* "new", "ready" or "panicked"
          overflow_checks,               \* build profile: TRUE = debug
          last,                          \* ghost: last call and its result
          byte_live, page_live,          \* ghost: blocks the caller holds
          lifo,                          \* ghost: all frees so far were LIFO
          supplied,                      \* ghost: ranges given to the allocator
          calls                          \* ghost: calls after init, frees apart

vars == <<start, end, b_pos, p_pos, pc, overflow_checks, last,
          byte_live, page_live, lifo, supplied, calls>>

fields == <<start, end, b_pos, p_pos>>
ghost == <<byte_live, page_live, lifo, supplied>>

\* ---- usize arithmetic ----
Val(v) == [ok |-> TRUE, v |-> v]
Panicked == [ok |-> FALSE, v |-> 0]

WAdd(a, b) == (a + b) % Word
WSub(a, b) == (a - b + Word) % Word
WMul(a, b) == (a * b) % Word

AddOverflows(a, b) == a + b >= Word
SubOverflows(a, b) == a < b
MulOverflows(a, b) == a * b >= Word

\* a - b on usize: panics under overflow checks, wraps otherwise
CheckedSub(a, b) ==
    IF SubOverflows(a, b) /\ overflow_checks THEN Panicked ELSE Val(WSub(a, b))

\* r / PAGE_SIZE, where r is the outcome of a subtraction
DivPage(r) == IF r.ok THEN Val(r.v \div PAGE_SIZE) ELSE Panicked

\* ---- queries (pure functions of the fields) ----
total_bytes == CheckedSub(end, start)
used_bytes == CheckedSub(b_pos, start)
available_bytes == CheckedSub(end, b_pos)
total_pages == DivPage(CheckedSub(end, start))
used_pages == DivPage(CheckedSub(end, p_pos))
available_pages == DivPage(CheckedSub(p_pos, start))

\* usize::is_power_of_two: exactly one bit set
RECURSIVE PopCount(_)
PopCount(n) == IF n = 0 THEN 0 ELSE (n % 2) + PopCount(n \div 2)

\* a check that only rejects zero
is_power_of_two_nonzero(n) == n # 0

is_power_of_two(n) == PopCount(n) = 1

\* ---- the input sets ----
InitBases == 0 .. MaxBase
InitSizes == {2} \cup {k * PAGE_SIZE : k \in 1 .. MaxPagesInit}
AllocSizes == 0 .. MaxAllocSize
AllocAligns == {1}
PageCounts == 0 .. MaxCount
PageAligns == {0, 1, PAGE_SIZE, PAGE_SIZE + 1, 2 * PAGE_SIZE, 3 * PAGE_SIZE}
AddBases == {1, 3 * PAGE_SIZE, 4 * PAGE_SIZE}
AddSizes == {3, PAGE_SIZE}

NoCall == [op |-> "none", a1 |-> 0, a2 |-> 0, res |-> "none", val |-> 0]
Call(op, a1, a2, res, val) ==
    [op |-> op, a1 |-> a1, a2 |-> a2, res |-> res, val |-> val]

\* remove element i of sequence s
RemoveAt(s, i) == SubSeq(s, 1, i - 1) \o SubSeq(s, i + 1, Len(s))

\* ---- EarlyAllocator::new ----
Init ==
    /\ start = 0 /\ end = 0 /\ b_pos = 0 /\ p_pos = 0
    /\ pc = "new"
    /\ overflow_checks \in BOOLEAN
    /\ last = NoCall
    /\ byte_live = <<>> /\ page_live = <<>>
    /\ lifo = TRUE
    /\ supplied = {}
    /\ calls = 0

\* a panic before any field is written: the fields keep their values
Panic(op, a1, a2) ==
    /\ pc' = "panicked"
    /\ last' = Call(op, a1, a2, "Panic", 0)
    /\ UNCHANGED <<fields, ghost>>

\* a panic after self.start was stored: only start has its new value
PanicAfterStart(op, a1, a2, new_start) ==
    /\ pc' = "panicked"
    /\ last' = Call(op, a1, a2, "Panic", 0)
    /\ start' = new_start
    /\ UNCHANGED <<end, b_pos, p_pos, ghost>>

\* ---- BaseAllocator::init ----
init(base, size) ==
    /\ pc = "new"
    /\ UNCHANGED <<overflow_checks, calls>>
    /\ IF AddOverflows(base, size) /\ overflow_checks
       THEN PanicAfterStart("init", base, size, base)
       ELSE /\ start' = base
            /\ end' = WAdd(base, size)
            /\ b_pos' = base
            /\ p_pos' = WAdd(base, size)
            /\ pc' = "ready"
            /\ last' = Call("init", base, size, "Ok", 0)
            /\ supplied' = {<<base, size>>}
            /\ UNCHANGED <<byte_live, page_live, lifo>>

\* ---- BaseAllocator::add_memory ----
add_memory(base, size) ==
    /\ pc = "ready"
    /\ calls < MaxCalls
    /\ calls' = calls + 1
    /\ UNCHANGED overflow_checks
    /\ IF AddOverflows(base, size) /\ overflow_checks /\ base < end
       THEN Panic("add_memory", base, size)
       ELSE IF base < end /\ WAdd(base, size) > start
       THEN /\ last' = Call("add_memory", base, size, "MemoryOverlap", 0)
            /\ UNCHANGED <<fields, pc, ghost>>
       ELSE IF AddOverflows(base, size) /\ overflow_checks
       THEN PanicAfterStart("add_memory", base, size,
                            IF base < start THEN base ELSE start)
       ELSE /\ start' = IF base < start THEN base ELSE start
            /\ end' = IF WAdd(base, size) > end THEN WAdd(base, size) ELSE end
            /\ p_pos' = IF WAdd(base, size) > end THEN WAdd(base, size) ELSE p_pos
            /\ last' = Call("add_memory", base, size, "Ok", 0)
            /\ supplied' = supplied \cup {<<base, size>>}
            /\ UNCHANGED <<b_pos, pc, byte_live, page_live, lifo>>

\* a dealloc that does not compare at all
IsTop_always(ret) == TRUE

\* the comparison of dealloc: the freed block ends at the cursor
IsTop(ret) == ret = start

\* the byte frontier in force: the address the next alloc returns
ByteFrontier == start

\* ---- ByteAllocator::alloc ----
alloc(size, align) ==
    /\ pc = "ready"
    /\ calls < MaxCalls
    /\ Len(byte_live) < MaxLive
    /\ calls' = calls + 1
    /\ UNCHANGED overflow_checks
    /\ IF ~available_bytes.ok
       THEN Panic("alloc", size, align)
       ELSE IF available_bytes.v < size
       THEN /\ last' = Call("alloc", size, align, "NoMemory", 0)
            /\ UNCHANGED <<fields, pc, ghost>>
       ELSE IF start = 0
       THEN Panic("alloc", size, align)
       ELSE IF AddOverflows(start, size) /\ overflow_checks
       THEN Panic("alloc", size, align)
       ELSE /\ start' = WAdd(start, size)
            /\ last' = Call("alloc", size, align, "Ok", start)
            /\ byte_live' = Append(byte_live,
                   [ptr |-> start, size |-> size, used |-> used_bytes])
            /\ UNCHANGED <<end, b_pos, p_pos, pc, page_live, lifo, supplied>>

\* ---- ByteAllocator::dealloc, of the i-th block the caller holds ----
dealloc(i) ==
    /\ pc = "ready"
    /\ i \in 1 .. Len(byte_live)
    /\ UNCHANGED <<overflow_checks, calls>>
    /\ LET pos == byte_live[i].ptr
           size == byte_live[i].size
       IN IF AddOverflows(pos, size) /\ overflow_checks
          THEN Panic("dealloc", pos, size)
          ELSE IF IsTop(WAdd(pos, size)) /\ SubOverflows(start, size)
                  /\ overflow_checks
          THEN Panic("dealloc", pos, size)
          ELSE /\ start' = IF IsTop(WAdd(pos, size))
                           THEN WSub(start, size) ELSE start
               /\ last' = Call("dealloc", pos, size, "Ok", 0)
               /\ byte_live' = RemoveAt(byte_live, i)
               /\ lifo' = (lifo /\ i = Len(byte_live))
               /\ UNCHANGED <<end, b_pos, p_pos, pc, page_live, supplied>>

\* ---- PageAllocator::alloc_pages ----
alloc_pages(num_pages, align_pow2) ==
    /\ pc = "ready"
    /\ calls < MaxCalls
    /\ Len(page_live) < MaxLive
    /\ calls' = calls + 1
    /\ UNCHANGED overflow_checks
    /\ IF align_pow2 % PAGE_SIZE # 0 \/ ~is_power_of_two(align_pow2)
       THEN /\ last' = Call("alloc_pages", num_pages, align_pow2,
                            "InvalidParam", 0)
            /\ UNCHANGED <<fields, pc, ghost>>
       ELSE IF MulOverflows(num_pages, PAGE_SIZE) /\ overflow_checks
       THEN Panic("alloc_pages", num_pages, align_pow2)
       ELSE IF p_pos < WMul(num_pages, PAGE_SIZE)
       THEN /\ last' = Call("alloc_pages", num_pages, align_pow2,
                            "NoMemory", 0)
            /\ UNCHANGED <<fields, pc, ghost>>
       ELSE /\ p_pos' = p_pos - WMul(num_pages, PAGE_SIZE)
            /\ last' = Call("alloc_pages", num_pages, align_pow2, "Ok",
                            p_pos - WMul(num_pages, PAGE_SIZE))
            /\ page_live' = Append(page_live,
                   [ptr |-> p_pos - WMul(num_pages, PAGE_SIZE),
                    count |-> num_pages,
                    before |-> [p_pos |-> p_pos, used |-> used_pages,
                                avail |-> available_pages]])
            /\ UNCHANGED <<start, end, b_pos, pc, byte_live, lifo, supplied>>

\* a dealloc_pages that reclaims nothing
FreedPagePos_kept(num_pages) == p_pos

\* the page cursor after dealloc_pages: p_pos += num_pages * PAGE_SIZE
FreedPagePos(num_pages) == WAdd(p_pos, WMul(num_pages, PAGE_SIZE))

\* ---- PageAllocator::dealloc_pages, of the i-th block the caller holds ----
dealloc_pages(i) ==
    /\ pc = "ready"
    /\ i \in 1 .. Len(page_live)
    /\ UNCHANGED <<overflow_checks, calls>>
    /\ LET pos == page_live[i].ptr
           num_pages == page_live[i].count
       IN IF overflow_checks
             /\ (\/ MulOverflows(num_pages, PAGE_SIZE)
                 \/ AddOverflows(p_pos, WMul(num_pages, PAGE_SIZE)))
          THEN Panic("dealloc_pages", pos, num_pages)
          ELSE /\ p_pos' = FreedPagePos(num_pages)
               /\ last' = Call("dealloc_pages", pos, num_pages, "Ok", 0)
               /\ page_live' = RemoveAt(page_live, i)
               /\ lifo' = (lifo /\ i = Len(page_live))
               /\ UNCHANGED <<start, end, b_pos, pc, byte_live, supplied>>

Next ==
    \/ \E base \in InitBases, size \in InitSizes : init(base, size)
    \/ \E base \in AddBases, size \in AddSizes : add_memory(base, size)
    \/ \E size \in AllocSizes, align \in AllocAligns : alloc(size, align)
    \/ \E i \in 1 .. MaxLive : dealloc(i)
    \/ \E n \in PageCounts, a \in PageAligns : alloc_pages(n, a)
    \/ \E i \in 1 .. MaxLive : dealloc_pages(i)

Spec == Init /\ [][Next]_vars

\* ---- notions the properties use ----

\* the free gap between the byte frontier and the page frontier
FreeGap == IF p_pos >= ByteFrontier THEN p_pos - ByteFrontier ELSE 0

\* the half-open ranges [a, a + n) and [b, b + m) share an address
Intersects(a, n, b, m) == n > 0 /\ m > 0 /\ a < b + m /\ b < a + n

Unchanged == UNCHANGED fields

\* C1: after init and any sequence of calls in which the caller frees only
\* blocks it holds, in LIFO order, start <= b_pos <= p_pos <= end.
C1_CursorOrder ==
    (pc = "ready" /\ lifo) => (start <= b_pos /\ b_pos <= p_pos /\ p_pos <= end)

\* C2: no live byte block intersects a live page block.
C2_BytesDisjointFromPages ==
    (pc = "ready" /\ lifo) =>
        \A i \in 1 .. Len(byte_live), j \in 1 .. Len(page_live) :
            ~Intersects(byte_live[i].ptr, byte_live[i].size,
                        page_live[j].ptr, page_live[j].count * PAGE_SIZE)

\* C3: alloc of a size larger than the free gap fails with NoMemory and
\* leaves the four cursors unchanged.
C3_AllocExhaustion ==
    [][(pc = "ready" /\ last'.op = "alloc" /\ last'.a1 > FreeGap)
          => (last'.res = "NoMemory" /\ Unchanged)]_vars

\* an alignment alloc_pages accepts: a power of two and a multiple of PAGE_SIZE
ValidAlign(a) == (\E k \in 0 .. WordBits : a = 2 ^ k) /\ a % PAGE_SIZE = 0

\* C4: a successful alloc returns the byte frontier as it was and advances
\* it by size; used_bytes() grows by size and available_bytes() shrinks by
\* size.
C4_AllocBumps ==
    [][(pc = "ready" /\ last'.op = "alloc" /\ last'.res = "Ok")
          => /\ last'.val = ByteFrontier
             /\ ByteFrontier' = ByteFrontier + last'.a1
             /\ used_bytes.ok /\ used_bytes'.ok
             /\ used_bytes'.v = used_bytes.v + last'.a1
             /\ available_bytes.ok /\ available_bytes'.ok
             /\ available_bytes'.v = available_bytes.v - last'.a1]_vars

\* C5: alloc_pages with a valid alignment and more pages than fit in the
\* free gap fails with NoMemory and leaves the four cursors unchanged.
C5_AllocPagesExhaustion ==
    [][(pc = "ready" /\ last'.op = "alloc_pages" /\ ValidAlign(last'.a2)
            /\ last'.a1 * PAGE_SIZE > FreeGap)
          => (last'.res = "NoMemory" /\ Unchanged)]_vars

\* C6: a successful alloc_pages lowers p_pos by count * PAGE_SIZE, returns
\* the new p_pos, lowers available_pages() by count and raises used_pages()
\* by count.
C6_AllocPagesBumps ==
    [][(pc = "ready" /\ last'.op = "alloc_pages" /\ last'.res = "Ok")
          => /\ p_pos' = p_pos - last'.a1 * PAGE_SIZE
             /\ last'.val = p_pos'
             /\ available_pages.ok /\ available_pages'.ok
             /\ available_pages'.v = available_pages.v - last'.a1
             /\ used_pages.ok /\ used_pages'.ok
             /\ used_pages'.v = used_pages.v + last'.a1]_vars

\* C7: the address a successful alloc_pages returns for a block of at least
\* one page is a multiple of the requested alignment.
C7_PagesAligned ==
    (last.op = "alloc_pages" /\ last.res = "Ok" /\ last.a1 > 0)
        => last.val % last.a2 = 0

\* C8: alloc_pages with an alignment that is not a power of two or not a
\* multiple of PAGE_SIZE fails with InvalidParam, whatever the count and the
\* free space, and leaves the four cursors unchanged.
C8_InvalidAlign ==
    [][(pc = "ready" /\ last'.op = "alloc_pages" /\ ~ValidAlign(last'.a2))
          => (last'.res = "InvalidParam" /\ Unchanged)]_vars

\* a power-of-two-free multiple of PAGE_SIZE was rejected although the
\* requested pages would have fitted
C8_Witness ==
    /\ pc = "ready"
    /\ last.op = "alloc_pages" /\ last.res = "InvalidParam"
    /\ last.a2 = 3 * PAGE_SIZE
    /\ last.a1 > 0 /\ last.a1 * PAGE_SIZE <= FreeGap

\* C9: freeing the most recently allocated live byte block moves the byte
\* frontier back by its size and restores used_bytes() to the value it had
\* before that block was allocated; once every block is freed in reverse
\* order used_bytes() is 0.
C9_LifoRoundTrip ==
    [][(/\ pc = "ready" /\ last'.op = "dealloc" /\ last'.res = "Ok"
        /\ lifo /\ lifo' /\ Cardinality(supplied) = 1)
          => LET top == byte_live[Len(byte_live)]
             IN /\ ByteFrontier' = ByteFrontier - top.size
                /\ used_bytes'.ok
                /\ used_bytes' = top.used
                /\ (byte_live' = <<>> => used_bytes' = Val(0))]_vars

\* C10: a dealloc of a block that does not end at the byte frontier leaves
\* the four cursors, and with them used_bytes(), unchanged.
C10_NonLifoNoOp ==
    [][(/\ pc = "ready" /\ last'.op = "dealloc" /\ last'.res = "Ok"
        /\ WAdd(last'.a1, last'.a2) # ByteFrontier)
          => (Unchanged /\ used_bytes' = used_bytes)]_vars

\* the earlier of two blocks was freed while the later one is still held
C10_Witness ==
    /\ pc = "ready"
    /\ last.op = "dealloc" /\ last.res = "Ok" /\ last.a2 > 0
    /\ byte_live # <<>>
    /\ last.a1 + last.a2 = byte_live[1].ptr
    /\ byte_live[1].size > 0
    /\ ByteFrontier = byte_live[1].ptr + byte_live[1].size

\* ---- the managed range, from the ranges handed over ----
SetMin(S) == CHOOSE x \in S : \A y \in S : x <= y
SetMax(S) == CHOOSE x \in S : \A y \in S : x >= y

\* the lowest base and the highest end given by init and add_memory
ManagedLo == SetMin({r[1] : r \in supplied})
ManagedHi == SetMax({r[1] + r[2] : r \in supplied})

\* C11: add_memory of a range that intersects the managed range, the part
\* handed out as byte blocks included, fails with MemoryOverlap and leaves
\* the four cursors unchanged.
C11_OverlapRejected ==
    [][(/\ pc = "ready" /\ last'.op = "add_memory"
        /\ Intersects(last'.a1, last'.a2, ManagedLo, ManagedHi - ManagedLo))
          => (last'.res = "MemoryOverlap" /\ Unchanged)]_vars

\* C12: a successful add_memory below start sets start to the new base and
\* leaves end and p_pos alone; above end it sets end and p_pos to the new
\* end and leaves start alone; the address the next alloc returns is not
\* moved in either case.
C12_AddMemoryFrame ==
    [][(pc = "ready" /\ last'.op = "add_memory" /\ last'.res = "Ok")
          => /\ (last'.a1 + last'.a2 <= start)
                  => (start' = last'.a1 /\ end' = end /\ p_pos' = p_pos)
             /\ (last'.a1 >= end)
                  => (/\ end' = last'.a1 + last'.a2 /\ p_pos' = end'
                      /\ start' = start)
             /\ ByteFrontier' = ByteFrontier]_vars

\* C13: dealloc_pages raises p_pos by count * PAGE_SIZE whatever the pointer
\* is and changes nothing else; right after a successful alloc_pages, freeing
\* the returned block restores p_pos, used_pages() and available_pages() to
\* what they were before the allocation.
C13_DeallocPagesRoundTrip ==
    [][(pc = "ready" /\ last'.op = "dealloc_pages" /\ last'.res = "Ok")
          => /\ p_pos' = WAdd(p_pos, WMul(last'.a2, PAGE_SIZE))
             /\ UNCHANGED <<start, end, b_pos>>
             /\ (/\ last.op = "alloc_pages" /\ last.res = "Ok"
                 /\ last'.a1 = last.val /\ last'.a2 = last.a1)
                  => LET top == page_live[Len(page_live)]
                     IN /\ p_pos' = top.before.p_pos
                        /\ used_pages' = top.before.used
                        /\ available_pages' = top.before.avail]_vars

\* a block of at least one page was freed and p_pos is back at its upper end
C13_Witness ==
    /\ pc = "ready"
    /\ last.op = "dealloc_pages" /\ last.res = "Ok" /\ last.a2 > 0
    /\ p_pos = last.a1 + last.a2 * PAGE_SIZE
    /\ used_pages = Val(0)

\* C14: after init, under calls that respect the contract, the three byte
\* queries have values and total_bytes() = used_bytes() + available_bytes().
C14_ByteQueriesAddUp ==
    (pc = "ready" /\ lifo) =>
        /\ total_bytes.ok /\ used_bytes.ok /\ available_bytes.ok
        /\ total_bytes.v = used_bytes.v + available_bytes.v

\* C15: after init, under calls that respect the contract, the three page
\* queries have values and total_pages() = used_pages() + available_pages().
C15_PageQueriesAddUp ==
    (pc = "ready" /\ lifo) =>
        /\ total_pages.ok /\ used_pages.ok /\ available_pages.ok
        /\ total_pages.v = used_pages.v + available_pages.v

\* C16: alloc, dealloc, alloc_pages and dealloc_pages, successful or not,
\* leave total_bytes() and total_pages() as they were.
C16_TotalsFrame ==
    [][(/\ pc = "ready"
        /\ last'.op \in {"alloc", "dealloc", "alloc_pages", "dealloc_pages"})
          => (total_bytes' = total_bytes /\ total_pages' = total_pages)]_vars

\* address x lies in one of the ranges handed over
Supplied(x) == \E r \in supplied : r[1] <= x /\ x < r[1] + r[2]

\* every address of [a, a + n) lies in a range handed over
InsideSupplied(a, n) == \A x \in a .. (a + n - 1) : Supplied(x)

\* C17: every block a successful alloc or alloc_pages returned lies entirely
\* inside memory given to the allocator by init or a successful add_memory.
C17_BlocksInsideSupplied ==
    (pc = "ready" /\ lifo) =>
        /\ \A i \in 1 .. Len(byte_live) :
               InsideSupplied(byte_live[i].ptr, byte_live[i].size)
        /\ \A j \in 1 .. Len(page_live) :
               InsideSupplied(page_live[j].ptr, page_live[j].count * PAGE_SIZE)

\* C18: no two live blocks of the same side intersect.
C18_SameSideDisjoint ==
    (pc = "ready" /\ lifo) =>
        /\ \A i, j \in 1 .. Len(byte_live) :
               i < j => ~Intersects(byte_live[i].ptr, byte_live[i].size,
                                    byte_live[j].ptr, byte_live[j].size)
        /\ \A i, j \in 1 .. Len(page_live) :
               i < j => ~Intersects(page_live[i].ptr,
                                    page_live[i].count * PAGE_SIZE,
                                    page_live[j].ptr,
                                    page_live[j].count * PAGE_SIZE)

\* C19: after init, under calls that respect the contract, no subtraction of
\* the six queries underflows.
C19_NoQueryUnderflow ==
    (pc = "ready" /\ lifo) =>
        /\ ~SubOverflows(b_pos, start)
        /\ ~SubOverflows(end, b_pos)
        /\ ~SubOverflows(end, start)
        /\ ~SubOverflows(end, p_pos)
        /\ ~SubOverflows(p_pos, start)

\* C20: once every block alloc returned has been given back, in whatever
\* order, the bytes area is free again: used_bytes() is 0 and the next alloc
\* returns the lowest address of the region.
C20_BytesReleasedAtZero ==
    (pc = "ready" /\ byte_live = <<>> /\ Cardinality(supplied) = 1) =>
        (used_bytes = Val(0) /\ ByteFrontier = ManagedLo)
====
